---- MODULE Spec2Model ----
(***************************************************************************)
(* process_conversation of modules/speaker_id.py as a state machine.       *)
(*                                                                         *)
(* One run of process_conversation over one transcript.  Every statement   *)
(* of the function that touches a collaborator (database, vector index,    *)
(* matcher, consolidation pass) is one action; `pc` is the position of the *)
(* run inside the function.  Confidences and similarities are percentages  *)
(* (0..100) so that thresholds can be compared exactly.                    *)
(*                                                                         *)
(* test_voice_segment, auto_update_embedding and                           *)
(* identify_unknown_speakers_by_combining are called by the function but   *)
(* defined elsewhere in the module; they are modelled from sections 4.1,   *)
(* 4.2 and 4.3 of the specification.                                       *)
(***************************************************************************)
EXTENDS Integers, Sequences, FiniteSets, TLC

VARIABLES
    utterances,          \* transcript_data['utterances'] (line 19)
    pc,                  \* position inside process_conversation
    i,                   \* loop index of `for i, utterance in enumerate(...)`
    speaker_name,        \* local of the loop body (lines 51, 57)
    confidence,          \* local of the loop body (lines 51, 58)
    embedding,           \* local of the loop body (line 51): <<>> is None
    s3_path,             \* local bound at line 94: <<>> while unbound
    utterance_metadata,  \* the list built at line 77, replaced at line 112
    index,               \* the vector index: entries [vec, speaker_name, source]
    speakers,            \* speaker table of the database (add_speaker)
    conversations,       \* number of conversation rows (add_conversation)
    db_utterances,       \* utterance rows of the database (add_utterance)
    result,              \* "pending", "ok" (the dict of line 122) or "None"
    calls,               \* history: collaborator calls in the order made
    matched,             \* history: <<id, name, confidence>> the matcher returned
    pre_consolidation,   \* history: the list handed to the consolidation pass
    combined,            \* history: what the pass got for each group's combined audio
    wav_file,            \* what convert_to_wav returned: "file_path" or "temp"
    temp_exists          \* a temporary WAV file is on disk

vars == <<utterances, pc, i, speaker_name, confidence, embedding, s3_path,
          utterance_metadata, index, speakers, conversations, db_utterances,
          result, calls, matched, pre_consolidation, combined,
          wav_file, temp_exists>>

---------------------------------------------------------------------------
(* Bounds and program constants *)

MaxUtt == 2

match_threshold == 60

auto_update_threshold == 80

MinDurationMs == 700

None == "None"

NoEmbedding == <<>>

Tags == {"A", "B"}

Vectors == {1, 2, 4, 5}

RequiredFields == {"words", "start", "end", "text", "speaker"}

AllFields == RequiredFields \cup {"confidence"}

---------------------------------------------------------------------------
(* Inputs: the utterances the diarization provider may return *)

Utt(has, dur, tag, conf) ==
    [has |-> has, start |-> 0, end |-> dur, speaker |-> tag, confidence |-> conf]

WellFormedInputs ==
    { Utt(AllFields, 700, "A", 81),
      Utt(AllFields \ {"confidence"}, 900, "A", 0),
      Utt(AllFields, 900, "B", 95) }

ShortInputs == { Utt(AllFields, 650, "A", 95), Utt(AllFields, 699, "B", 95) }

MalformedInputs == { Utt(AllFields \ {f}, 900, "A", 95) : f \in RequiredFields }

UtteranceInputs == WellFormedInputs \cup ShortInputs \cup MalformedInputs

\* The provider's spans follow each other in time: the k-th utterance starts
\* at k * 1000 ms.
Place(u, k) == [u EXCEPT !.start = 1000 * k, !.end = 1000 * k + u.end]

Transcripts ==
    UNION { { [k \in 1..n |-> Place(f[k], k)] : f \in [1..n -> UtteranceInputs] }
            : n \in 0..MaxUtt }

---------------------------------------------------------------------------
(* The vector index and the matcher (sections 4.1, 4.2 and 6 of the spec) *)

Entry(vec, name, source) == [vec |-> vec, speaker_name |-> name, source |-> source]

\* Profiles enrolled before the run; their source is -1.
InitialIndex == { Entry(0, "alice", -1), Entry(10, "bob", -1) }

InitialSpeakers == { "alice", "bob" }

FallbackLabel(tag) == "Speaker_" \o tag

IsFallbackLabel(name) == \E t \in Tags : name = FallbackLabel(t)

\* Order of names, for the deterministic tie-break of section 4.1.
NameRank(name) ==
    CASE name = "alice" -> 1
      [] name = "bob" -> 2
      [] name = "Speaker_A" -> 3
      [] name = "Speaker_B" -> 4
      [] OTHER -> 5

Dist(v, w) == IF v > w THEN v - w ELSE w - v

\* Similarity of two vectors, in percent.
Sim(v, w) == IF 10 * Dist(v, w) > 100 THEN 0 ELSE 100 - 10 * Dist(v, w)

Better(v, e, f) ==
    \/ Sim(v, e.vec) > Sim(v, f.vec)
    \/ /\ Sim(v, e.vec) = Sim(v, f.vec)
       /\ NameRank(e.speaker_name) <= NameRank(f.speaker_name)

\* index.query(vector, top_k=1): the nearest neighbour and its similarity.
Query(idx, v) ==
    LET best == CHOOSE e \in idx : \A f \in idx : Better(v, e, f)
    IN [speaker_name |-> best.speaker_name, similarity |-> Sim(v, best.vec)]

IsMatch(similarity, threshold) == similarity >= threshold

\* test_voice_segment(audio_segment, conversation_id, i, match_threshold):
\* (speaker_name, confidence, embedding).  emb is what the embedding model
\* gives for the segment, fails whether the index query fails.
test_voice_segment(emb, idx, threshold, fails) ==
    IF emb = NoEmbedding
    THEN [speaker_name |-> None, confidence |-> 0, embedding |-> NoEmbedding]
    ELSE IF fails \/ idx = {}
    THEN [speaker_name |-> None, confidence |-> 0, embedding |-> emb]
    ELSE LET q == Query(idx, emb[1])
         IN IF IsMatch(q.similarity, threshold)
            THEN [speaker_name |-> q.speaker_name, confidence |-> q.similarity,
                  embedding |-> emb]
            ELSE [speaker_name |-> None, confidence |-> 0, embedding |-> emb]

\* index.upsert(vector, metadata) as auto_update_embedding performs it; a
\* failed write leaves the index as it was.
Upsert(idx, e, ok) == IF ok THEN idx \cup {e} ELSE idx

\* What the embedding model and the index may do for one segment.
SegmentOutcomes ==
    { [emb |-> NoEmbedding, qfail |-> FALSE] }
    \cup { [emb |-> <<v>>, qfail |-> FALSE] : v \in Vectors }
    \cup { [emb |-> <<5>>, qfail |-> TRUE] }

Call(op, id, ok) == [op |-> op, id |-> id, ok |-> ok]

---------------------------------------------------------------------------
(* process_conversation *)

Init ==
    /\ utterances \in Transcripts
    /\ pc = "add_conversation"
    /\ i = 0
    /\ speaker_name = None
    /\ confidence = 0
    /\ embedding = NoEmbedding
    /\ s3_path = <<>>
    /\ utterance_metadata = <<>>
    /\ index = InitialIndex
    /\ speakers = InitialSpeakers
    /\ conversations = 0
    /\ db_utterances = <<>>
    /\ result = "pending"
    /\ calls = <<>>
    /\ matched = {}
    /\ pre_consolidation = <<>>
    /\ combined = <<>>
    /\ wav_file = "file_path"
    /\ temp_exists = FALSE

utterance == utterances[i + 1]

\* Lines 22-30: add_conversation; a database error raises into the handler.
AddConversation ==
    /\ pc = "add_conversation"
    /\ \E ok \in BOOLEAN :
        /\ conversations' = IF ok THEN conversations + 1 ELSE conversations
        /\ pc' = IF ok THEN "loop" ELSE "except"
        /\ calls' = Append(calls, Call("add_conversation", -1, ok))
    /\ UNCHANGED <<wav_file, temp_exists, utterances, i, speaker_name, confidence, embedding, s3_path,
                   utterance_metadata, index, speakers, db_utterances, result,
                   matched, pre_consolidation, combined>>

\* Variant of TooShort: the floor itself is skipped.
TooShortLeq(duration_ms) == duration_ms <= MinDurationMs

\* Line 44: `if duration_ms < 700`.
TooShort(duration_ms) == duration_ms < MinDurationMs

\* Variant of LoopDone: the loop stops one utterance early.
LoopDoneEarly(k, n) == k >= n - 1

\* Line 34: the for loop is exhausted.
LoopDone(k, n) == k >= n

\* Lines 34-46: take the next utterance; skip it without word timing or when
\* it is short; utterance["start"] / utterance["end"] raise KeyError when the
\* key is absent.
ForUtterance ==
    /\ pc = "loop"
    /\ IF LoopDone(i, Len(utterances))
       THEN /\ pc' = "consolidate"
            /\ i' = i
       ELSE IF "words" \notin utterance.has
       THEN /\ pc' = "loop"
            /\ i' = i + 1
       ELSE IF "start" \notin utterance.has \/ "end" \notin utterance.has
       THEN /\ pc' = "except"
            /\ i' = i
       ELSE IF TooShort(utterance.end - utterance.start)
       THEN /\ pc' = "loop"
            /\ i' = i + 1
       ELSE /\ pc' = "test"
            /\ i' = i
    /\ UNCHANGED <<wav_file, temp_exists, utterances, speaker_name, confidence, embedding, s3_path,
                   utterance_metadata, index, speakers, conversations,
                   db_utterances, result, calls, matched, pre_consolidation, combined>>

\* Variant of TestSegment: the enrollment threshold is passed to the matcher.
TestSegmentAutoThreshold ==
    /\ pc = "test"
    /\ \E o \in SegmentOutcomes :
        LET r == test_voice_segment(o.emb, index, auto_update_threshold, o.qfail)
        IN /\ speaker_name' = r.speaker_name
           /\ confidence' = r.confidence
           /\ embedding' = r.embedding
           /\ matched' = IF r.speaker_name # None
                         THEN matched \cup {<<i, r.speaker_name, r.confidence>>}
                         ELSE matched
           /\ calls' = IF o.emb = NoEmbedding
                       THEN Append(calls, Call("test_voice_segment", i, TRUE))
                       ELSE calls \o << Call("test_voice_segment", i, TRUE),
                                        Call("query", i, ~o.qfail) >>
    /\ pc' = "fallback"
    /\ UNCHANGED <<wav_file, temp_exists, utterances, i, s3_path, utterance_metadata, index, speakers,
                   conversations, db_utterances, result, pre_consolidation, combined>>

\* Lines 48-53: slice the audio and test the segment against the index.
TestSegment ==
    /\ pc = "test"
    /\ \E o \in SegmentOutcomes :
        LET r == test_voice_segment(o.emb, index, match_threshold, o.qfail)
        IN /\ speaker_name' = r.speaker_name
           /\ confidence' = r.confidence
           /\ embedding' = r.embedding
           /\ matched' = IF r.speaker_name # None
                         THEN matched \cup {<<i, r.speaker_name, r.confidence>>}
                         ELSE matched
           /\ calls' = IF o.emb = NoEmbedding
                       THEN Append(calls, Call("test_voice_segment", i, TRUE))
                       ELSE calls \o << Call("test_voice_segment", i, TRUE),
                                        Call("query", i, ~o.qfail) >>
    /\ pc' = "fallback"
    /\ UNCHANGED <<wav_file, temp_exists, utterances, i, s3_path, utterance_metadata, index, speakers,
                   conversations, db_utterances, result, pre_consolidation, combined>>

\* Variant of ProviderConfidence: the default is full confidence.
ProviderConfidenceDefaultOne(u) == IF "confidence" \in u.has THEN u.confidence ELSE 100

\* utterance.get("confidence", 0.0)
ProviderConfidence(u) == IF "confidence" \in u.has THEN u.confidence ELSE 0

\* Variant of Fallback: the provider's label replaces a matched name too.
FallbackAlways ==
    /\ pc = "fallback"
    /\ IF "speaker" \notin utterance.has
       THEN /\ pc' = "except"
            /\ UNCHANGED <<speaker_name, confidence>>
       ELSE /\ speaker_name' = FallbackLabel(utterance.speaker)
            /\ confidence' = ProviderConfidence(utterance)
            /\ pc' = "add_speaker"
    /\ UNCHANGED <<wav_file, temp_exists, utterances, i, embedding, s3_path, utterance_metadata, index,
                   speakers, conversations, db_utterances, result, calls,
                   matched, pre_consolidation, combined>>

\* Variant of Fallback: an unmatched utterance keeps the empty name.
FallbackMissing ==
    /\ pc = "fallback"
    /\ pc' = "add_speaker"
    /\ UNCHANGED <<wav_file, temp_exists, utterances, i, speaker_name, confidence, embedding, s3_path,
                   utterance_metadata, index, speakers, conversations,
                   db_utterances, result, calls, matched, pre_consolidation, combined>>

\* Lines 55-58: no speaker found, use the provider's label and confidence;
\* utterance['speaker'] raises KeyError when the key is absent.
Fallback ==
    /\ pc = "fallback"
    /\ IF speaker_name # None
       THEN /\ pc' = "add_speaker"
            /\ UNCHANGED <<speaker_name, confidence>>
       ELSE IF "speaker" \notin utterance.has
       THEN /\ pc' = "except"
            /\ UNCHANGED <<speaker_name, confidence>>
       ELSE /\ speaker_name' = FallbackLabel(utterance.speaker)
            /\ confidence' = ProviderConfidence(utterance)
            /\ pc' = "add_speaker"
    /\ UNCHANGED <<wav_file, temp_exists, utterances, i, embedding, s3_path, utterance_metadata, index,
                   speakers, conversations, db_utterances, result, calls,
                   matched, pre_consolidation, combined>>

\* Lines 60-61: add_speaker creates the profile when the name is new; a
\* database error raises into the handler.
AddSpeaker ==
    /\ pc = "add_speaker"
    /\ \E ok \in BOOLEAN :
        /\ speakers' = IF ok THEN speakers \cup {speaker_name} ELSE speakers
        /\ pc' = IF ok THEN "store" ELSE "except"
        /\ calls' = Append(calls, Call("add_speaker", i, ok))
    /\ UNCHANGED <<wav_file, temp_exists, utterances, i, speaker_name, confidence, embedding, s3_path,
                   utterance_metadata, index, conversations, db_utterances,
                   result, matched, pre_consolidation, combined>>

\* The fields of utterance_data the properties read (lines 64-76).
utterance_data ==
    [id |-> i, start_ms |-> utterance.start, end_ms |-> utterance.end,
     confidence |-> confidence, speaker |-> speaker_name]

\* Variant of StoreMetadata: an utterance without an embedding is left out of
\* the list.
StoreMetadataEmbeddedOnly ==
    /\ pc = "store"
    /\ IF "text" \notin utterance.has
       THEN /\ pc' = "except"
            /\ UNCHANGED utterance_metadata
       ELSE /\ utterance_metadata' = IF embedding = NoEmbedding
                                     THEN utterance_metadata
                                     ELSE Append(utterance_metadata, utterance_data)
            /\ pc' = "auto_update"
    /\ UNCHANGED <<wav_file, temp_exists, utterances, i, speaker_name, confidence, embedding, s3_path,
                   index, speakers, conversations, db_utterances, result, calls,
                   matched, pre_consolidation, combined>>

\* Lines 63-77: build the record and append it; utterance["text"] raises
\* KeyError when the key is absent.
StoreMetadata ==
    /\ pc = "store"
    /\ IF "text" \notin utterance.has
       THEN /\ pc' = "except"
            /\ UNCHANGED utterance_metadata
       ELSE /\ utterance_metadata' = Append(utterance_metadata, utterance_data)
            /\ pc' = "auto_update"
    /\ UNCHANGED <<wav_file, temp_exists, utterances, i, speaker_name, confidence, embedding, s3_path,
                   index, speakers, conversations, db_utterances, result, calls,
                   matched, pre_consolidation, combined>>

\* Variant of ShouldAutoUpdate: the threshold itself enrolls.
ShouldAutoUpdateGeq(emb, conf, threshold) == emb # NoEmbedding /\ conf >= threshold

\* Line 80: `if embedding is not None and confidence > auto_update_threshold`.
ShouldAutoUpdate(emb, conf, threshold) == emb # NoEmbedding /\ conf > threshold

\* Variant of AutoUpdate: the write is reported but never reaches the index
\* the next query reads.
AutoUpdateLost ==
    /\ pc = "auto_update"
    /\ IF embedding # NoEmbedding /\ confidence > auto_update_threshold
       THEN \E ok \in BOOLEAN :
              calls' = Append(calls, Call("auto_update_embedding", i, ok))
       ELSE UNCHANGED calls
    /\ pc' = "add_utterance"
    /\ UNCHANGED <<wav_file, temp_exists, utterances, i, speaker_name, confidence, embedding, s3_path,
                   utterance_metadata, index, speakers, conversations,
                   db_utterances, result, matched, pre_consolidation, combined>>

\* Variant of AutoUpdate: a failed write raises into the handler.
AutoUpdateRaises ==
    /\ pc = "auto_update"
    /\ IF embedding # NoEmbedding /\ confidence > auto_update_threshold
       THEN \E ok \in BOOLEAN :
              /\ index' = Upsert(index, Entry(embedding[1], speaker_name, i), ok)
              /\ calls' = Append(calls, Call("auto_update_embedding", i, ok))
              /\ pc' = IF ok THEN "add_utterance" ELSE "except"
       ELSE /\ UNCHANGED <<index, calls>>
            /\ pc' = "add_utterance"
    /\ UNCHANGED <<wav_file, temp_exists, utterances, i, speaker_name, confidence, embedding, s3_path,
                   utterance_metadata, speakers, conversations, db_utterances,
                   result, matched, pre_consolidation, combined>>

\* Lines 79-91: auto-update the index with a high-confidence embedding.  The
\* write is best-effort: a failed write leaves the index unchanged and does
\* not raise.
AutoUpdate ==
    /\ pc = "auto_update"
    /\ IF ShouldAutoUpdate(embedding, confidence, auto_update_threshold)
       THEN \E ok \in BOOLEAN :
              /\ index' = Upsert(index, Entry(embedding[1], speaker_name, i), ok)
              /\ calls' = Append(calls, Call("auto_update_embedding", i, ok))
       ELSE UNCHANGED <<index, calls>>
    /\ pc' = "add_utterance"
    /\ UNCHANGED <<wav_file, temp_exists, utterances, i, speaker_name, confidence, embedding, s3_path,
                   utterance_metadata, speakers, conversations, db_utterances,
                   result, matched, pre_consolidation, combined>>

\* The fields of the row add_utterance stores that the properties read
\* (lines 95-109).
utterance_info ==
    [id |-> i, start_ms |-> utterance.start, end_ms |-> utterance.end,
     confidence |-> confidence, speaker |-> speaker_name]

\* Lines 93-109: bind s3_path and persist the utterance; a database error
\* raises into the handler.  The loop then moves to the next utterance.
AddUtterance ==
    /\ pc = "add_utterance"
    /\ s3_path' = <<i>>
    /\ \E ok \in BOOLEAN :
        /\ db_utterances' = IF ok THEN Append(db_utterances, utterance_info)
                            ELSE db_utterances
        /\ pc' = IF ok THEN "loop" ELSE "except"
        /\ i' = IF ok THEN i + 1 ELSE i
        /\ calls' = Append(calls, Call("add_utterance", i, ok))
    /\ UNCHANGED <<wav_file, temp_exists, utterances, speaker_name, confidence, embedding,
                   utterance_metadata, index, speakers, conversations, result,
                   matched, pre_consolidation, combined>>

---------------------------------------------------------------------------
(* identify_unknown_speakers_by_combining (section 4.3 of the spec) *)

\* What the embedding model and the index may do for one combined segment.
CombinedOutcomes ==
    { [emb |-> NoEmbedding, qfail |-> FALSE, ufail |-> FALSE] }
    \cup { [emb |-> <<v>>, qfail |-> FALSE, ufail |-> FALSE] : v \in {1, 2, 5, 10} }
    \cup { [emb |-> <<1>>, qfail |-> TRUE, ufail |-> FALSE],
           [emb |-> <<1>>, qfail |-> FALSE, ufail |-> TRUE] }

\* Step 1: the members of a group are the records that carry its fallback
\* label; the records hold no other trace of the diarization tag.
Members(meta, label) == { k \in 1..Len(meta) : meta[k].speaker = label }

\* Step 1: the groups, in the order their first member appears.
RECURSIVE GroupLabels(_, _)
GroupLabels(meta, k) ==
    IF k > Len(meta) THEN <<>>
    ELSE LET rest == GroupLabels(meta, k + 1)
             l == meta[k].speaker
         IN IF IsFallbackLabel(l)
            THEN <<l>> \o SelectSeq(rest, LAMBDA x : x # l)
            ELSE rest

\* Variant of OverwriteGroup: only the first member is overwritten.
OverwriteFirst(meta, members, name, conf) ==
    [k \in 1..Len(meta) |->
        IF k \in members /\ \A m \in members : k <= m
        THEN [meta[k] EXCEPT !.speaker = name, !.confidence = conf]
        ELSE meta[k]]

\* Step 4: the matched identity and confidence go to every member.
OverwriteGroup(meta, members, name, conf) ==
    [k \in 1..Len(meta) |->
        IF k \in members
        THEN [meta[k] EXCEPT !.speaker = name, !.confidence = conf]
        ELSE meta[k]]

\* Steps 2-5 for one group: re-embed the combined audio, match it, and on a
\* match overwrite the group and enroll the combined embedding when the
\* confidence exceeds auto_threshold.  Combined enrollments have source -2.
ConsolidateGroup(st, members, o, mt, at) ==
    LET r == test_voice_segment(o.emb, st.idx, mt, o.qfail)
    IN IF r.speaker_name = None
       THEN st
       ELSE [meta |-> OverwriteGroup(st.meta, members, r.speaker_name, r.confidence),
             idx |-> IF r.confidence > at
                     THEN Upsert(st.idx, Entry(o.emb[1], r.speaker_name, -2), ~o.ufail)
                     ELSE st.idx]

RECURSIVE ConsolidateFrom(_, _, _, _, _, _, _)
ConsolidateFrom(st, original, labels, k, env, mt, at) ==
    IF k > Len(labels) THEN st
    ELSE ConsolidateFrom(
             ConsolidateGroup(st, Members(original, labels[k]), env[labels[k]], mt, at),
             original, labels, k + 1, env, mt, at)

\* consolidate(utterances, conversation_ref, full_audio, match_threshold,
\* auto_threshold): the utterances and the index after the pass.
identify_unknown_speakers_by_combining(meta, idx, env, mt, at) ==
    ConsolidateFrom([meta |-> meta, idx |-> idx], meta, GroupLabels(meta, 1), 1,
                    env, mt, at)

GroupSet(meta) == { meta[k].speaker : k \in 1..Len(meta) } \cap { FallbackLabel(t) : t \in Tags }

---------------------------------------------------------------------------
(* process_conversation, after the loop *)

\* Lines 111-118: the consolidation pass over the whole list.
Consolidate ==
    /\ pc = "consolidate"
    /\ \E env \in [GroupSet(utterance_metadata) -> CombinedOutcomes] :
        LET st == identify_unknown_speakers_by_combining(
                      utterance_metadata, index, env,
                      match_threshold, auto_update_threshold)
        IN /\ utterance_metadata' = st.meta
           /\ index' = st.idx
           /\ combined' = env
    /\ pre_consolidation' = utterance_metadata
    /\ calls' = Append(calls, Call("identify_unknown_speakers_by_combining",
                                   Len(utterance_metadata), TRUE))
    /\ pc' = "return"
    /\ UNCHANGED <<wav_file, temp_exists, utterances, i, speaker_name, confidence, embedding, s3_path,
                   speakers, conversations, db_utterances, result, matched>>

\* Lines 135-139: the finally clause removes the file convert_to_wav made.
Finally == temp_exists' = IF wav_file # "file_path" THEN FALSE ELSE temp_exists

\* Lines 120-128: build the result; reading s3_path raises
\* UnboundLocalError when no utterance reached line 94.  The return
\* leaves the try block through the finally clause.
Return ==
    /\ pc = "return"
    /\ IF s3_path = <<>>
       THEN /\ pc' = "except"
            /\ UNCHANGED <<result, temp_exists>>
       ELSE /\ result' = "ok"
            /\ pc' = "done"
            /\ Finally
    /\ UNCHANGED <<wav_file, utterances, i, speaker_name, confidence, embedding,
                   s3_path, utterance_metadata, index, speakers, conversations,
                   db_utterances, calls, matched, pre_consolidation, combined>>

\* Lines 130-139: any exception of the try block ends the run with None,
\* through the finally clause.
Except ==
    /\ pc = "except"
    /\ result' = "None"
    /\ pc' = "done"
    /\ Finally
    /\ UNCHANGED <<wav_file, utterances, i, speaker_name, confidence, embedding,
                   s3_path, utterance_metadata, index, speakers, conversations,
                   db_utterances, calls, matched, pre_consolidation, combined>>

Next ==
    \/ AddConversation
    \/ ForUtterance
    \/ TestSegment
    \/ Fallback
    \/ AddSpeaker
    \/ StoreMetadata
    \/ AutoUpdate
    \/ AddUtterance
    \/ Consolidate
    \/ Return
    \/ Except

Spec == Init /\ [][Next]_vars

---------------------------------------------------------------------------
(* The whole function: lines 9-19 run before the try block, so an
   exception there leaves the function without the handler and without
   the finally clause. *)

InitFull ==
    /\ utterances = <<>>
    /\ pc = "convert_to_wav"
    /\ i = 0
    /\ speaker_name = None
    /\ confidence = 0
    /\ embedding = NoEmbedding
    /\ s3_path = <<>>
    /\ utterance_metadata = <<>>
    /\ index = InitialIndex
    /\ speakers = InitialSpeakers
    /\ conversations = 0
    /\ db_utterances = <<>>
    /\ result = "pending"
    /\ calls = <<>>
    /\ matched = {}
    /\ pre_consolidation = <<>>
    /\ combined = <<>>
    /\ wav_file = None
    /\ temp_exists = FALSE

\* Lines 9-10: convert_to_wav returns the input path when it is a WAV
\* already, or the path of a temporary WAV file it wrote, or raises.
ConvertToWav ==
    /\ pc = "convert_to_wav"
    /\ \E out \in {"file_path", "temp", "raise"} :
        /\ wav_file' = IF out = "raise" THEN wav_file ELSE out
        /\ temp_exists' = (out = "temp")
        /\ pc' = IF out = "raise" THEN "raised" ELSE "from_wav"
    /\ UNCHANGED <<utterances, i, speaker_name, confidence, embedding, s3_path,
                   utterance_metadata, index, speakers, conversations,
                   db_utterances, result, calls, matched, pre_consolidation,
                   combined>>

\* Lines 12-13: AudioSegment.from_wav; a decoding error propagates to the
\* caller.
LoadAudio ==
    /\ pc = "from_wav"
    /\ \E ok \in BOOLEAN : pc' = IF ok THEN "transcribe" ELSE "raised"
    /\ UNCHANGED <<wav_file, temp_exists, utterances, i, speaker_name,
                   confidence, embedding, s3_path, utterance_metadata, index,
                   speakers, conversations, db_utterances, result, calls,
                   matched, pre_consolidation, combined>>

\* Lines 15-19: transcribe and take the utterances of the transcript; a
\* provider error propagates to the caller.
Transcribe ==
    /\ pc = "transcribe"
    /\ \/ /\ utterances' \in Transcripts
          /\ pc' = "add_conversation"
       \/ /\ pc' = "raised"
          /\ UNCHANGED utterances
    /\ UNCHANGED <<wav_file, temp_exists, i, speaker_name, confidence,
                   embedding, s3_path, utterance_metadata, index, speakers,
                   conversations, db_utterances, result, calls, matched,
                   pre_consolidation, combined>>

NextFull ==
    \/ ConvertToWav
    \/ LoadAudio
    \/ Transcribe
    \/ Next

SpecFull == InitFull /\ [][NextFull]_vars

---------------------------------------------------------------------------
(* Vocabulary of the properties *)

CallIdx == 1..Len(calls)

\* The matcher returned a profile for utterance id.
IsMatched(id) == \E m \in matched : m[1] = id

Called(op, id) == \E k \in CallIdx : calls[k].op = op /\ calls[k].id = id

CalledWith(op, id, ok) ==
    \E k \in CallIdx : calls[k].op = op /\ calls[k].id = id /\ calls[k].ok = ok

PerUtteranceOps ==
    {"test_voice_segment", "query", "add_speaker", "auto_update_embedding",
     "add_utterance"}

EnrollCalls == { k \in CallIdx : calls[k].op = "auto_update_embedding" }

QueryCalls == { k \in CallIdx : calls[k].op = "query" }

ConsolidateCalls ==
    { k \in CallIdx : calls[k].op = "identify_unknown_speakers_by_combining" }

Consolidated == ConsolidateCalls # {}

\* The records as the per-utterance pass produced them.
PerUtteranceRecords == IF Consolidated THEN pre_consolidation ELSE utterance_metadata

RecordIds(meta) == { meta[k].id : k \in 1..Len(meta) }

RowIds == { db_utterances[k].id : k \in 1..Len(db_utterances) }

Complete(u) == RequiredFields \subseteq u.has

HasSpan(u) == "start" \in u.has /\ "end" \in u.has

Duration(u) == u.end - u.start

\* The ids of the utterances that carry every required field and last at
\* least 700 ms.
ProcessableIds ==
    { n - 1 : n \in { m \in 1..Len(utterances) :
                        Complete(utterances[m]) /\ Duration(utterances[m]) >= 700 } }

\* The ids of the utterances the loop does not skip: word timing present and
\* a span of at least 700 ms.
SurvivorIds ==
    { n - 1 : n \in { m \in 1..Len(utterances) :
                        /\ "words" \in utterances[m].has
                        /\ HasSpan(utterances[m])
                        /\ Duration(utterances[m]) >= 700 } }

StorageFailed ==
    \E k \in CallIdx :
        /\ calls[k].op \in {"add_conversation", "add_speaker", "add_utterance"}
        /\ ~calls[k].ok

AllComplete == \A n \in 1..Len(utterances) : Complete(utterances[n])

\* The run returned its result with a record and a row for every processable
\* utterance.
CompleteResult ==
    /\ result = "ok"
    /\ RecordIds(utterance_metadata) = ProcessableIds
    /\ RowIds = ProcessableIds

---------------------------------------------------------------------------
(* C1: utterances are handled in array order and one at a time: the calls
   made for an utterance never precede a call made for an earlier one (each
   call is for the same utterance as the call before it or for a later one), an
   auto-enrollment for utterance i precedes the match query of every later
   utterance j, and when the query for utterance j is about to be issued the
   index holds the entry of every successful enrollment made so far. *)
C1_ReadAfterWrite ==
    /\ \A p \in 1..(Len(calls) - 1) :
         (/\ calls[p].op \in PerUtteranceOps
          /\ calls[p + 1].op \in PerUtteranceOps) => calls[p].id <= calls[p + 1].id
    /\ \A u \in EnrollCalls : \A q \in QueryCalls :
         calls[u].id < calls[q].id => u < q
    /\ pc = "test" =>
         \A u \in EnrollCalls :
            calls[u].ok => /\ calls[u].id < i
                           /\ \E e \in index : e.source = calls[u].id

\* Utterance 0 was enrolled for alice, and utterance 1, whose embedding is
\* below the threshold for every profile enrolled before the run, matched
\* alice through that enrollment.
C1_Witness ==
    /\ CalledWith("auto_update_embedding", 0, TRUE)
    /\ pc = "fallback" /\ i = 1
    /\ embedding = <<5>>
    /\ speaker_name = "alice"
    /\ confidence = 60

(* C2 (amended): the consolidation pass is invoked at most once per run and
   exactly once in every run that returns a result; when it is invoked no
   per-utterance call follows it, every utterance the loop does not skip has been
   matched and persisted, and it receives every record of the per-utterance
   pass. *)
C2_ConsolidationAfterLoop ==
    /\ Cardinality(ConsolidateCalls) <= 1
    /\ result = "ok" => Cardinality(ConsolidateCalls) = 1
    /\ \A c \in ConsolidateCalls :
         /\ \A k \in CallIdx : k > c => calls[k].op \notin PerUtteranceOps
         /\ \A id \in SurvivorIds :
              /\ Called("test_voice_segment", id)
              /\ CalledWith("add_utterance", id, TRUE)
         /\ RecordIds(pre_consolidation) = SurvivorIds
         /\ Len(pre_consolidation) = Cardinality(SurvivorIds)
         /\ calls[c].id = Len(pre_consolidation)

C2_Witness ==
    /\ result = "ok"
    /\ Cardinality(ConsolidateCalls) = 1
    /\ Len(pre_consolidation) = 2

\* C2 as stated: exactly one invocation in every run.
C2_ExactlyOncePerRun == pc = "done" => Cardinality(ConsolidateCalls) = 1

(* C3: when no collaborator fails, a run over a transcript that holds at
   least one complete utterance of 700 ms or more returns its result with a
   record for every such utterance, whatever fields the other utterances
   lack. *)
C3_MalformedSkipped ==
    (pc = "done" /\ ~StorageFailed /\ ProcessableIds # {}) => CompleteResult

(* C4: a failed index query does not abort the run: the utterance is
   unmatched and carries the fallback label of its diarization tag with the
   provider's confidence, and a run whose utterances are complete and whose
   only failures are index failures returns a record for every processable
   utterance. *)
C4_QueryFailureDegrades ==
    /\ \A k \in 1..Len(PerUtteranceRecords) :
         LET r == PerUtteranceRecords[k]
             u == utterances[r.id + 1]
         IN CalledWith("query", r.id, FALSE) =>
              /\ ~IsMatched(r.id)
              /\ r.speaker = FallbackLabel(u.speaker)
              /\ r.confidence = ProviderConfidence(u)
    /\ (/\ pc = "done"
        /\ AllComplete
        /\ ~StorageFailed
        /\ \E id \in 0..MaxUtt : CalledWith("query", id, FALSE)) => CompleteResult

\* The query failed for utterance 0 and the run returned records for
\* utterances 0 and 1.
C4_Witness ==
    /\ result = "ok"
    /\ CalledWith("query", 0, FALSE)
    /\ RecordIds(utterance_metadata) = {0, 1}

(* C5: a failed index write does not abort the run: the utterance's record
   is in the list, the row persisted for it carries the record's speaker and
   confidence, and a run whose utterances are complete and whose only
   failures are index failures returns a record for every processable
   utterance. *)
C5_UpsertFailureIgnored ==
    /\ \A id \in 0..MaxUtt :
         CalledWith("auto_update_embedding", id, FALSE) =>
            /\ id \in RecordIds(PerUtteranceRecords)
            /\ \A k \in 1..Len(db_utterances) : db_utterances[k].id = id =>
                 \E n \in 1..Len(PerUtteranceRecords) :
                    /\ PerUtteranceRecords[n].id = id
                    /\ PerUtteranceRecords[n].speaker = db_utterances[k].speaker
                    /\ PerUtteranceRecords[n].confidence = db_utterances[k].confidence
            /\ (pc = "auto_update" => i > id)
    /\ (/\ pc = "done"
        /\ AllComplete
        /\ ~StorageFailed
        /\ \E id \in 0..MaxUtt : CalledWith("auto_update_embedding", id, FALSE))
       => CompleteResult

\* The write failed for utterance 0, its row was persisted, and the run
\* returned records for utterances 0 and 1.
C5_Witness ==
    /\ result = "ok"
    /\ CalledWith("auto_update_embedding", 0, FALSE)
    /\ CalledWith("add_utterance", 0, TRUE)
    /\ RecordIds(utterance_metadata) = {0, 1}

(* C6: in the per-utterance pass the enrollment call is made for an
   utterance exactly when its embedding is present and its confidence is
   strictly greater than auto_update_threshold. *)
C6_EnrollIffAboveThreshold ==
    \A k \in 1..Len(PerUtteranceRecords) :
        LET r == PerUtteranceRecords[k]
        IN (pc = "auto_update" => i # r.id) =>
              (Called("auto_update_embedding", r.id) <=>
                  (Called("query", r.id) /\ r.confidence > auto_update_threshold))

\* Utterance 0 has an embedding and a confidence equal to the threshold and
\* was not enrolled; utterance 1 exceeds the threshold by one and was.
C6_Witness ==
    /\ Len(PerUtteranceRecords) = 2
    /\ pc = "return"
    /\ PerUtteranceRecords[1].confidence = auto_update_threshold
    /\ Called("query", PerUtteranceRecords[1].id)
    /\ ~Called("auto_update_embedding", PerUtteranceRecords[1].id)
    /\ PerUtteranceRecords[2].confidence = auto_update_threshold + 1
    /\ Called("auto_update_embedding", PerUtteranceRecords[2].id)

(* C7: every enrollment of the per-utterance pass belongs to an utterance
   the matcher returned a profile for, and no fallback label is the speaker
   name of an index entry. *)
C7_OnlyMatchedEnrolled ==
    /\ \A k \in CallIdx :
         calls[k].op = "auto_update_embedding" => IsMatched(calls[k].id)
    /\ \A e \in index : ~IsFallbackLabel(e.speaker_name)

(* C8: an utterance shorter than 700 ms causes no matcher call, no speaker
   creation, no enrollment and no row, and has no record; an utterance of
   exactly 700 ms that the loop has passed was matched, recorded and
   persisted. *)
C8_ShortNeverProcessed ==
    \A n \in 1..Len(utterances) :
        LET u == utterances[n]
            id == n - 1
        IN /\ (HasSpan(u) /\ Duration(u) < 700) =>
                /\ \A op \in PerUtteranceOps : ~Called(op, id)
                /\ id \notin RecordIds(utterance_metadata)
                /\ id \notin RecordIds(pre_consolidation)
                /\ id \notin RowIds
                /\ \A e \in index : e.source # id
           /\ (Complete(u) /\ Duration(u) = 700 /\ i > id) =>
                /\ Called("test_voice_segment", id)
                /\ id \in RecordIds(PerUtteranceRecords)
                /\ id \in RowIds

\* Utterance 0 lasts 699 ms and was skipped; utterance 1 lasts 700 ms and is
\* in the returned list.
C8_Witness ==
    /\ result = "ok"
    /\ Len(utterances) = 2
    /\ Duration(utterances[1]) = 699
    /\ Duration(utterances[2]) = 700
    /\ RecordIds(utterance_metadata) = {1}

\* The unmatched records of one diarization tag, by position in the list.
TagGroup(t) ==
    { k \in 1..Len(pre_consolidation) :
        /\ ~IsMatched(pre_consolidation[k].id)
        /\ utterances[pre_consolidation[k].id + 1].speaker = t }

(* C9: after consolidation, every diarization-tag group of fallback-labelled
   utterances is either wholly unchanged or wholly overwritten with one
   speaker and one confidence that reaches the match threshold. *)
C9_GroupAtomicity ==
    Consolidated =>
        \A t \in Tags :
            \/ \A k \in TagGroup(t) : utterance_metadata[k] = pre_consolidation[k]
            \/ \E k0 \in TagGroup(t) :
                 /\ utterance_metadata[k0].confidence >= match_threshold
                 /\ \A k \in TagGroup(t) :
                      utterance_metadata[k] =
                         [pre_consolidation[k] EXCEPT
                             !.speaker = utterance_metadata[k0].speaker,
                             !.confidence = utterance_metadata[k0].confidence]

\* Two fallback-labelled utterances of tag A with different confidences both
\* carry alice and the combined similarity after the pass.
C9_Witness ==
    /\ Consolidated
    /\ TagGroup("A") = {1, 2}
    /\ pre_consolidation[1].confidence # pre_consolidation[2].confidence
    /\ utterance_metadata[1].speaker = "alice"
    /\ utterance_metadata[2].speaker = "alice"
    /\ utterance_metadata[1].confidence = 80
    /\ utterance_metadata[2].confidence = 80

(* C10: consolidation leaves the record of every utterance that the
   per-utterance pass matched to a profile with a non-fallback name
   unchanged: after the pass the record still carries that profile and the
   confidence it had before the pass. *)
C10_MatchedUntouched ==
    Consolidated =>
        \A m \in matched :
            ~IsFallbackLabel(m[2]) =>
                \A k \in 1..Len(pre_consolidation) :
                    pre_consolidation[k].id = m[1] =>
                        /\ utterance_metadata[k] = pre_consolidation[k]
                        /\ utterance_metadata[k].speaker = m[2]

\* Utterance 0 (tag A) was matched to alice, utterance 1 (tag A) fell back,
\* and its group was matched to bob: utterance 0 still carries alice.
C10_Witness ==
    /\ Consolidated
    /\ Len(pre_consolidation) = 2
    /\ IsMatched(pre_consolidation[1].id)
    /\ pre_consolidation[1].speaker = "alice"
    /\ utterances[pre_consolidation[1].id + 1].speaker = "A"
    /\ pre_consolidation[2].speaker = "Speaker_A"
    /\ utterance_metadata[2].speaker = "bob"
    /\ utterance_metadata[1] = pre_consolidation[1]

(* C11: consolidation is idempotent: when no index entry carries a fallback
   name, applying the pass again to the list it returned, against the index
   it left and with the same combined audio (hence the same embedding) for
   every group, changes no record. *)
SameAudio ==
    \A l \in GroupSet(utterance_metadata) :
        /\ l \in DOMAIN combined
        /\ Members(utterance_metadata, l) = Members(pre_consolidation, l)

SecondPass ==
    identify_unknown_speakers_by_combining(
        utterance_metadata, index, combined, match_threshold, auto_update_threshold)

C11_Idempotent ==
    (/\ Consolidated
     /\ SameAudio
     /\ \A e \in index : ~IsFallbackLabel(e.speaker_name))
    => SecondPass.meta = utterance_metadata

(* C12: every record of the per-utterance pass has a speaker: the profile
   and similarity the matcher returned when it returned one, otherwise the
   fallback label of the utterance's diarization tag with the provider's
   confidence, 0 when the provider gave none. *)
C12_SpeakerAndConfidence ==
    \A k \in 1..Len(PerUtteranceRecords) :
        LET r == PerUtteranceRecords[k]
            u == utterances[r.id + 1]
        IN /\ r.speaker # None
           /\ IsMatched(r.id) =>
                /\ <<r.id, r.speaker, r.confidence>> \in matched
                /\ r.confidence >= match_threshold
           /\ ~IsMatched(r.id) =>
                /\ r.speaker = "Speaker_" \o u.speaker
                /\ "confidence" \in u.has => r.confidence = u.confidence
                /\ "confidence" \notin u.has => r.confidence = 0

\* Utterance 0 was matched to alice at 90; utterance 1, without a provider
\* confidence, fell back to Speaker_A with confidence 0.
C12_Witness ==
    /\ pc = "consolidate"
    /\ Len(utterance_metadata) = 2
    /\ utterance_metadata[1].speaker = "alice"
    /\ utterance_metadata[1].confidence = 90
    /\ ~IsMatched(utterance_metadata[2].id)
    /\ "confidence" \notin utterances[utterance_metadata[2].id + 1].has
    /\ utterance_metadata[2].speaker = "Speaker_A"
    /\ utterance_metadata[2].confidence = 0

(* C13: the list a run returns holds exactly one record per input utterance
   with word timing and a span of at least 700 ms, in input order and with
   the utterance's span; the consolidation pass keeps the length and the
   order of the list it received. *)
C13_ResultShape ==
    /\ result = "ok" =>
         /\ Len(utterance_metadata) = Cardinality(SurvivorIds)
         /\ RecordIds(utterance_metadata) = SurvivorIds
         /\ \A k \in 1..Len(utterance_metadata) :
              /\ utterance_metadata[k].start_ms = utterances[utterance_metadata[k].id + 1].start
              /\ utterance_metadata[k].end_ms = utterances[utterance_metadata[k].id + 1].end
              /\ k > 1 => utterance_metadata[k - 1].id < utterance_metadata[k].id
    /\ Consolidated =>
         /\ Len(utterance_metadata) = Len(pre_consolidation)
         /\ \A k \in 1..Len(utterance_metadata) :
              utterance_metadata[k].id = pre_consolidation[k].id

\* Both utterances are in the returned list, in order: utterance 0 had no
\* embedding and kept its fallback label, utterance 1 was matched by the
\* consolidation pass.
C13_Witness ==
    /\ result = "ok"
    /\ Len(utterance_metadata) = 2
    /\ utterance_metadata[1].id = 0
    /\ utterance_metadata[2].id = 1
    /\ ~Called("query", 0)
    /\ IsFallbackLabel(utterance_metadata[1].speaker)
    /\ utterance_metadata[2] # pre_consolidation[2]

\* The greatest similarity of vector v to an entry of the index.
BestSimilarity(v) ==
    CHOOSE x \in { Sim(v, e.vec) : e \in index } :
        \A e \in index : Sim(v, e.vec) <= x

\* The profiles with an entry at or above the match threshold for v.
ProfilesInReach(v) ==
    { e.speaker_name : e \in { f \in index : Sim(v, f.vec) >= match_threshold } }

(* C14: when the matcher has just answered for an utterance whose embedding
   is present and whose query succeeded, it returned a profile exactly when
   the greatest similarity in the index is at least match_threshold; the
   profile is that of an entry at that similarity, the confidence is that
   similarity, and when exactly one profile is within the threshold it is
   the one returned. *)
C14_MatchDecision ==
    (pc = "fallback" /\ embedding # NoEmbedding /\ CalledWith("query", i, TRUE)) =>
        LET v == embedding[1]
            best == BestSimilarity(v)
        IN /\ speaker_name # None <=> best >= match_threshold
           /\ speaker_name # None =>
                /\ confidence = best
                /\ \E e \in index : e.speaker_name = speaker_name /\ Sim(v, e.vec) = best
           /\ \A p \in ProfilesInReach(v) :
                ProfilesInReach(v) = {p} => speaker_name = p

\* The similarity equals the threshold and alice, the only profile within
\* it, is returned with confidence 60.
C14_Witness ==
    /\ pc = "fallback"
    /\ embedding = <<4>>
    /\ CalledWith("query", i, TRUE)
    /\ ProfilesInReach(4) = {"alice"}
    /\ speaker_name = "alice"
    /\ confidence = match_threshold

(* C15: a run that ends without a result after a storage failure leaves
   nothing behind: no conversation row, no utterance row, no new speaker and
   no new index entry. *)
C15_AtomicFailure ==
    (pc = "done" /\ result = "None" /\ StorageFailed) =>
        /\ conversations = 0
        /\ db_utterances = <<>>
        /\ speakers = InitialSpeakers
        /\ index = InitialIndex

\* No utterance makes the loop raise KeyError: one that has word timing has
\* every other required field.
WellKeyed ==
    \A n \in 1..Len(utterances) :
        "words" \in utterances[n].has => Complete(utterances[n])

(* C16: when no collaborator call fails and no utterance lacks a field the
   loop reads, the run returns a result, with an empty list when no
   utterance survives the filters. *)
C16_AlwaysReturns ==
    (pc = "done" /\ ~StorageFailed /\ WellKeyed) =>
        /\ result = "ok"
        /\ SurvivorIds = {} => utterance_metadata = <<>>

(* C17: in a run that returns a result, every returned record has a
   persisted row with the same speaker and confidence. *)
C17_PersistedEqualsReturned ==
    result = "ok" =>
        \A k \in 1..Len(utterance_metadata) :
            \E n \in 1..Len(db_utterances) :
                /\ db_utterances[n].id = utterance_metadata[k].id
                /\ db_utterances[n].speaker = utterance_metadata[k].speaker
                /\ db_utterances[n].confidence = utterance_metadata[k].confidence

\* The function has left: by a return, or by an exception of lines 9-19.
Terminated == pc \in {"done", "raised"}

\* C18: whenever convert_to_wav created a temporary WAV file distinct from
\* the input, the file is gone when process_conversation has terminated,
\* whether it returned (a result or None) or an exception of loading or
\* transcribing the audio left it.
C18_TempFileRemoved == Terminated => ~temp_exists

=============================================================================
